---- MODULE Spec2Model ----
(***************************************************************************)
(* State-machine model of the WunderWohn rental backend (src/server.py):   *)
(* the users, properties and bookings collections of the document store,   *)
(* and the request handlers register, get_properties, create_property,     *)
(* create_booking, get_user_bookings, delete_booking,                      *)
(* initialize_sample_data and refresh_sample_data.                         *)
(*                                                                         *)
(* Every handler is a coroutine: it runs atomically from one `await` on a  *)
(* store operation to the next, and handlers of different requests         *)
(* interleave at those points.  Each action below is one such atomic       *)
(* stretch: one store operation together with the synchronous code that    *)
(* follows it up to the next await (or the return / raise).                *)
(*                                                                         *)
(* Record fields that no handler ever reads or computes with (names,       *)
(* password hash, description, address, amenities, images, timestamps)     *)
(* are left out of the records.                                            *)
(***************************************************************************)
EXTENDS Integers, Sequences, FiniteSets, TLC

VARIABLES
    users,        \* db.users: sequence of User documents, in insertion order
    properties,   \* db.properties: sequence of Property documents
    bookings,     \* db.bookings: sequence of Booking documents
    nextId,       \* per collection, the number of uuid4 values drawn so far
    started,      \* per kind, the writing requests let in so far (bounds the exploration)
    proc          \* per request slot: position in the handler, locals, response

vars == <<users, properties, bookings, nextId, started, proc>>

----------------------------------------------------------------------------
(* Bounds of the model *)

\* request slots that can be in flight at once
NProcs == 2
\* register requests
MaxRegister == 2
\* create_property requests
MaxCreateProperty == 1
\* create_booking requests
MaxCreateBooking == 2
\* delete_booking requests
MaxDelete == 1

\* under SpecRefresh: register, create_property, create_booking and
\* refresh-data requests
RefreshRegister == 1
RefreshCreateProperty == 1
RefreshCreateBooking == 2
RefreshSeed == 1

\* under SpecSearch: properties listed before and between the searches
SearchProperties == 101

\* under SpecList: register and create_property requests, and the bookings
\* one user makes
ListRegister == 1
ListCreateProperty == 1
ListBookings == 101

\* the requests of the specification of racing deletions
DeleteRegister == 2
DeleteCreateProperty == 1
DeleteCreateBooking == 1
DeleteRequests == 2

\* the init-data requests of the specification of racing seeds
InitRequests == 2

\* the requests of the specification of all the operations
AllRegister == 1
AllCreateProperty == 1
AllCreateBooking == 1
AllDelete == 1
AllSeed == 1

\* the requests of the specification of the accounts
AccountsRegister == 2
AccountsSeed == 2

Procs == 1..NProcs

----------------------------------------------------------------------------
(* Optional values: Python's None and a present value *)

None == <<>>
Some(x) == <<x>>
IsSet(o) == o /= <<>>
Get(o) == o[1]

\* Python truthiness of an Optional[float] / Optional[int]: None and 0 are falsy
TruthyNum(o) == IsSet(o) /\ Get(o) /= 0
\* Python truthiness of an Optional[str]: None and "" are falsy
TruthyStr(o) == IsSet(o) /\ Get(o) /= ""

Min(a, b) == IF a <= b THEN a ELSE b

----------------------------------------------------------------------------
(* Text: the characters of the strings that occur as city, property type   *)
(* or search pattern                                                       *)

Chars(s) ==
    CASE s = "" -> <<>>
      [] s = "Berlin" -> <<"B","e","r","l","i","n">>
      [] s = "Munich" -> <<"M","u","n","i","c","h">>
      [] s = "Hamburg" -> <<"H","a","m","b","u","r","g">>
      [] s = "Cologne" -> <<"C","o","l","o","g","n","e">>
      [] s = "Frankfurt" -> <<"F","r","a","n","k","f","u","r","t">>
      [] s = "Stuttgart" -> <<"S","t","u","t","t","g","a","r","t">>
      [] s = "Dresden" -> <<"D","r","e","s","d","e","n">>
      [] s = "Kiel" -> <<"K","i","e","l">>
      [] s = "Garmisch-Partenkirchen" ->
            <<"G","a","r","m","i","s","c","h","-","P","a","r","t","e","n",
              "k","i","r","c","h","e","n">>
      [] s = "Duesseldorf" -> <<"D","u","e","s","s","e","l","d","o","r","f">>
      [] s = "Heidelberg" -> <<"H","e","i","d","e","l","b","e","r","g">>
      [] s = "Leipzig" -> <<"L","e","i","p","z","i","g">>
      [] s = "apartment" -> <<"a","p","a","r","t","m","e","n","t">>
      [] s = "house" -> <<"h","o","u","s","e">>
      [] s = "villa" -> <<"v","i","l","l","a">>
      [] s = "loft" -> <<"l","o","f","t">>
      [] s = "chalet" -> <<"c","h","a","l","e","t">>
      [] s = "townhouse" -> <<"t","o","w","n","h","o","u","s","e">>
      [] s = "penthouse" -> <<"p","e","n","t","h","o","u","s","e">>
      [] s = "BER" -> <<"B","E","R">>
      [] s = "burg" -> <<"b","u","r","g">>
      [] s = "K.el" -> <<"K",".","e","l">>
      [] s = "House" -> <<"H","o","u","s","e">>
      [] s = "LOFT" -> <<"L","O","F","T">>

\* str.lower() on one character
Lower(c) ==
    CASE c = "B" -> "b" [] c = "C" -> "c" [] c = "D" -> "d" [] c = "E" -> "e"
      [] c = "F" -> "f" [] c = "G" -> "g" [] c = "H" -> "h" [] c = "K" -> "k"
      [] c = "L" -> "l" [] c = "M" -> "m" [] c = "O" -> "o" [] c = "P" -> "p"
      [] c = "R" -> "r" [] c = "S" -> "s" [] c = "T" -> "t"
      [] OTHER -> c

\* text contains pat as a substring, ignoring case
ContainsIgnoreCase(text, pat) ==
    LET t == Chars(text)
        q == Chars(pat)
    IN \E off \in 0..(Len(t) - Len(q)) :
          \A j \in 1..Len(q) : Lower(q[j]) = Lower(t[off + j])

\* {"$regex": pat, "$options": "i"}: an unanchored, case-insensitive regular
\* expression search; "." in the pattern stands for any character, every
\* other character of the patterns used here stands for itself
RegexMatchI(pat, text) ==
    LET t == Chars(text)
        q == Chars(pat)
    IN \E off \in 0..(Len(t) - Len(q)) :
          \A j \in 1..Len(q) : q[j] = "." \/ Lower(q[j]) = Lower(t[off + j])

----------------------------------------------------------------------------
(* Calendar dates: datetime.date, its subtraction and isoformat()          *)

Date(y, m, d) == [year |-> y, month |-> m, day |-> d]

IsLeap(y) == (y % 4 = 0) /\ ((y % 100 /= 0) \/ (y % 400 = 0))

DaysInMonth(y, m) ==
    CASE m \in {1, 3, 5, 7, 8, 10, 12} -> 31
      [] m \in {4, 6, 9, 11} -> 30
      [] OTHER -> IF IsLeap(y) THEN 29 ELSE 28

RECURSIVE DaysBeforeMonth(_, _)
DaysBeforeMonth(y, m) ==
    IF m = 1 THEN 0 ELSE DaysBeforeMonth(y, m - 1) + DaysInMonth(y, m - 1)

DaysBeforeYear(y) ==
    LET n == y - 1 IN n * 365 + (n \div 4) - (n \div 100) + (n \div 400)

\* date.toordinal(): proleptic Gregorian ordinal, 0001-01-01 is day 1
ToOrdinal(dt) == DaysBeforeYear(dt.year) + DaysBeforeMonth(dt.year, dt.month) + dt.day

\* (check_out - check_in).days
DaysBetween(check_in, check_out) == ToOrdinal(check_out) - ToOrdinal(check_in)

Pad2(n) == IF n < 10 THEN "0" \o ToString(n) ELSE ToString(n)

\* date.isoformat(): "YYYY-MM-DD" (years of four digits)
IsoFormat(dt) == ToString(dt.year) \o "-" \o Pad2(dt.month) \o "-" \o Pad2(dt.day)

\* chronological order of two dates
DateLeq(a, b) ==
    \/ a.year < b.year
    \/ a.year = b.year /\ a.month < b.month
    \/ a.year = b.year /\ a.month = b.month /\ a.day <= b.day

----------------------------------------------------------------------------
(* The document store's primitives (Motor / MongoDB)                       *)

\* the positions of the documents of coll whose id field is id
IdxById(coll, id) == {i \in 1..Len(coll) : coll[i].id = id}

SetMin(S) == CHOOSE m \in S : \A n \in S : m <= n

\* find_one({"id": id}): the first matching document, or None
\* (variant: find_one({}), the filter left out)
FindOneUnfiltered(coll, id) ==
    IF Len(coll) = 0 THEN None ELSE Some(coll[1])

FindOneById(coll, id) ==
    IF IdxById(coll, id) = {} THEN None ELSE Some(coll[SetMin(IdxById(coll, id))])

\* find_one({"email": email}) (the comparison is case-sensitive equality)
FindOneByEmail(coll, email) ==
    LET idx == {i \in 1..Len(coll) : coll[i].email = email}
    IN IF idx = {} THEN None ELSE Some(coll[SetMin(idx)])

\* cursor.to_list(n): at most the first n documents of the cursor
\* (variant: one document too many)
ToListOneMore(cursor, n) == SubSeq(cursor, 1, Min(Len(cursor), n + 1))

ToList(cursor, n) == SubSeq(cursor, 1, Min(Len(cursor), n))

\* delete_one({"id": id}): removes the first matching document
\* (variant: the document stays, its status set to "cancelled")
DeleteOneSoft(coll, id) ==
    IF IdxById(coll, id) = {} THEN coll
    ELSE [coll EXCEPT ![SetMin(IdxById(coll, id))].status = "cancelled"]

DeleteOneById(coll, id) ==
    IF IdxById(coll, id) = {} THEN coll
    ELSE LET k == SetMin(IdxById(coll, id))
         IN SubSeq(coll, 1, k - 1) \o SubSeq(coll, k + 1, Len(coll))

\* delete_one's deleted_count
\* (variant: always 1)
DeletedCountAlways(coll, id) == 1

DeletedCount(coll, id) == IF IdxById(coll, id) = {} THEN 0 ELSE 1

\* delete_many({"id": {"$nin": ids}})
DeleteManyIdNin(coll, ids) ==
    LET Keep(d) == d.id \in ids IN SelectSeq(coll, Keep)

----------------------------------------------------------------------------
(* Program constants *)

AdminEmail == "admin@wunderwohn.com"

\* to_list(100) of get_properties
SearchLimit == 100
\* to_list(100) of a regular user's bookings
UserListLimit == 100
\* to_list(1000) of the admin's bookings
AdminListLimit == 1000

\* sample_properties of initialize_sample_data and of refresh_sample_data (the
\* two lists are the same); the city written with u-umlaut in the source is
\* transliterated
SampleProperties == <<
    [title |-> "Charming Apartment in Berlin Mitte", property_type |-> "apartment",
     city |-> "Berlin", price_per_night |-> 120, max_guests |-> 4],
    [title |-> "Historic House in Munich Old Town", property_type |-> "house",
     city |-> "Munich", price_per_night |-> 200, max_guests |-> 6],
    [title |-> "Modern Riverside Apartment in Hamburg", property_type |-> "apartment",
     city |-> "Hamburg", price_per_night |-> 150, max_guests |-> 3],
    [title |-> "Cozy Canal House in Cologne", property_type |-> "house",
     city |-> "Cologne", price_per_night |-> 180, max_guests |-> 5],
    [title |-> "Luxury Apartment in Frankfurt Financial District", property_type |-> "apartment",
     city |-> "Frankfurt", price_per_night |-> 250, max_guests |-> 4],
    [title |-> "Charming Villa in Stuttgart Hills", property_type |-> "villa",
     city |-> "Stuttgart", price_per_night |-> 300, max_guests |-> 8],
    [title |-> "Elegant Loft in Dresden Historic Center", property_type |-> "loft",
     city |-> "Dresden", price_per_night |-> 140, max_guests |-> 3],
    [title |-> "Seaside Apartment in Kiel Baltic Coast", property_type |-> "apartment",
     city |-> "Kiel", price_per_night |-> 110, max_guests |-> 4],
    [title |-> "Mountain Chalet in Garmisch-Partenkirchen", property_type |-> "chalet",
     city |-> "Garmisch-Partenkirchen", price_per_night |-> 220, max_guests |-> 6],
    [title |-> "Industrial Loft in Duesseldorf Art Quarter", property_type |-> "loft",
     city |-> "Duesseldorf", price_per_night |-> 170, max_guests |-> 4],
    [title |-> "Historic Townhouse in Heidelberg Old Town", property_type |-> "townhouse",
     city |-> "Heidelberg", price_per_night |-> 190, max_guests |-> 5],
    [title |-> "Modern Penthouse in Leipzig City Center", property_type |-> "penthouse",
     city |-> "Leipzig", price_per_night |-> 280, max_guests |-> 6] >>

----------------------------------------------------------------------------
(* The pydantic models *)

\* User(email=...): id from uuid4
User(id, email) == [id |-> id, email |-> email]

\* Property(**data): id from uuid4, available defaults to True
Property(id, data) ==
    [id |-> id, title |-> data.title, property_type |-> data.property_type,
     city |-> data.city, price_per_night |-> data.price_per_night,
     max_guests |-> data.max_guests, available |-> TRUE]

\* Booking(...).dict() with check_in / check_out turned into ISO strings
\* (variant: the status "pending", the guest count capped at 2)
BookingDictPending(id, user_id, data, total_price) ==
    [id |-> id, user_id |-> user_id, property_id |-> data.property_id,
     check_in |-> IsoFormat(data.check_in), check_out |-> IsoFormat(data.check_out),
     guests |-> Min(data.guests, 2), total_price |-> total_price, status |-> "pending"]

BookingDict(id, user_id, data, total_price) ==
    [id |-> id, user_id |-> user_id, property_id |-> data.property_id,
     check_in |-> IsoFormat(data.check_in), check_out |-> IsoFormat(data.check_out),
     guests |-> data.guests, total_price |-> total_price, status |-> "confirmed"]

----------------------------------------------------------------------------
(* Request slots *)

NoUser == [id |-> "", email |-> ""]
NoArgs == [none |-> TRUE]
NoLoc == [none |-> TRUE]
NoResp == [status |-> 0, detail |-> "", body |-> <<>>]

Idle == [pc |-> "idle", op |-> "", user |-> NoUser, args |-> NoArgs,
         loc |-> NoLoc, resp |-> NoResp]

\* a normal return: HTTP 200 with a JSON body (kept as a sequence of documents)
Ok(detail, body) == [status |-> 200, detail |-> detail, body |-> body]
\* raise HTTPException(status_code, detail)
HTTPException(status, detail) == [status |-> status, detail |-> detail, body |-> <<>>]

\* the handler of slot p returns or raises: the response is out
Done(p, op, user, args, resp) ==
    [pc |-> "done", op |-> op, user |-> user, args |-> args, loc |-> NoLoc, resp |-> resp]

\* the handler of slot p stops at its next await
At(pc, op, user, args, loc) ==
    [pc |-> pc, op |-> op, user |-> user, args |-> args, loc |-> loc, resp |-> NoResp]

\* str(uuid.uuid4()): a string no earlier draw has returned; the n-th id drawn
\* for collection c ("u", "p", "b") is written c-n
Uuid(c, n) == c \o "-" \o ToString(n)

NewId(c) == Uuid(c, nextId[c] + 1)

Draw(c) == nextId' = [nextId EXCEPT ![c] = @ + 1]

Count(kind) == started' = [started EXCEPT ![kind] = @ + 1]

Kinds == {"register", "create_property", "create_booking", "delete_booking", "seed"}

----------------------------------------------------------------------------
(* register                                                                *)

\* find_one by email; raise 400 when the email is stored, else build the User
RegisterFind(p, email) ==
    /\ proc[p].pc = "idle"
    /\ UNCHANGED <<users, properties, bookings>>
    /\ LET args == [email |-> email]
           existing_user == FindOneByEmail(users, email)
       IN IF IsSet(existing_user)
          THEN /\ proc' = [proc EXCEPT ![p] = Done(p, "register", NoUser, args,
                               HTTPException(400, "Email already registered"))]
               /\ UNCHANGED <<nextId, started>>
          ELSE /\ proc' = [proc EXCEPT ![p] = At("reg_insert", "register", NoUser, args,
                               [user |-> User(NewId("u"), email)])]
               /\ Draw("u")
               /\ Count("register")

\* insert_one(user.dict()) and the return of the token and the user
RegisterInsert(p) ==
    /\ proc[p].pc = "reg_insert"
    /\ users' = Append(users, proc[p].loc.user)
    /\ proc' = [proc EXCEPT ![p] = Done(p, "register", NoUser, proc[p].args,
                    Ok("", <<proc[p].loc.user>>))]
    /\ UNCHANGED <<properties, bookings, nextId, started>>

----------------------------------------------------------------------------
(* get_properties                                                          *)

\* filter_dict, as the handler builds it from the query options
FilterDict(q) ==
    [available |-> TRUE,
     city |-> IF TruthyStr(q.city) THEN q.city ELSE None,
     price_gte |-> IF TruthyNum(q.min_price) THEN q.min_price ELSE None,
     price_lte |-> IF TruthyNum(q.max_price) THEN q.max_price ELSE None,
     guests_gte |-> IF TruthyNum(q.min_guests) THEN q.min_guests ELSE None,
     property_type |-> IF TruthyStr(q.property_type) THEN q.property_type ELSE None]

\* whether document d matches filter_dict f
Matches(f, d) ==
    /\ d.available = f.available
    /\ IsSet(f.city) => RegexMatchI(Get(f.city), d.city)
    /\ IsSet(f.price_gte) => d.price_per_night >= Get(f.price_gte)
    /\ IsSet(f.price_lte) => d.price_per_night <= Get(f.price_lte)
    /\ IsSet(f.guests_gte) => d.max_guests >= Get(f.guests_gte)
    /\ IsSet(f.property_type) => RegexMatchI(Get(f.property_type), d.property_type)

\* db.properties.find(filter_dict).to_list(100)
FindProperties(coll, q) ==
    LET Sel(d) == Matches(FilterDict(q), d)
    IN ToList(SelectSeq(coll, Sel), SearchLimit)

GetProperties(p, q) ==
    /\ proc[p].pc = "idle"
    /\ proc' = [proc EXCEPT ![p] = Done(p, "get_properties", NoUser, q,
                    Ok("", FindProperties(properties, q)))]
    /\ UNCHANGED <<users, properties, bookings, nextId, started>>

----------------------------------------------------------------------------
(* create_property                                                         *)

CreateProperty(p, data) ==
    /\ proc[p].pc = "idle"
    /\ Count("create_property")
    /\ LET property_obj == Property(NewId("p"), data)
       IN /\ properties' = Append(properties, property_obj)
          /\ proc' = [proc EXCEPT ![p] = Done(p, "create_property", NoUser, data,
                          Ok("", <<property_obj>>))]
    /\ Draw("p")
    /\ UNCHANGED <<users, bookings>>

----------------------------------------------------------------------------
(* create_booking                                                          *)

\* if days <= 0: raise
\* (variant: days < 0)
InvalidRangeStrict(days) == days < 0

InvalidRange(days) == days <= 0

\* total_price = days * property_doc["price_per_night"]
\* (variant: the check-out day charged as a night)
TotalPriceExtraNight(days, price_per_night) == (days + 1) * price_per_night

TotalPrice(days, price_per_night) == days * price_per_night

\* find_one of the property, the date check, the price and the Booking; u is
\* the position in db.users of the user the bearer token resolves to
CreateBookingFind(p, u, data) ==
    /\ proc[p].pc = "idle"
    /\ u \in 1..Len(users)
    /\ UNCHANGED <<users, properties, bookings>>
    /\ LET current_user == users[u]
           property_doc == FindOneById(properties, data.property_id)
           days == DaysBetween(data.check_in, data.check_out)
           total_price == TotalPrice(days, Get(property_doc).price_per_night)
       IN IF ~IsSet(property_doc)
          THEN /\ proc' = [proc EXCEPT ![p] = Done(p, "create_booking", current_user, data,
                               HTTPException(404, "Property not found"))]
               /\ UNCHANGED <<nextId, started>>
          ELSE IF InvalidRange(days)
          THEN /\ proc' = [proc EXCEPT ![p] = Done(p, "create_booking", current_user, data,
                               HTTPException(400, "Invalid date range"))]
               /\ UNCHANGED <<nextId, started>>
          ELSE /\ proc' = [proc EXCEPT ![p] = At("cb_insert", "create_booking", current_user, data,
                               [property_doc |-> Get(property_doc),
                                total_price |-> total_price,
                                booking_dict |-> BookingDict(NewId("b"), current_user.id, data, total_price)])]
               /\ Draw("b")
               /\ Count("create_booking")

\* (variant of CreateBookingInsert: a booking of a property that already has a
\* stored booking is turned down with Conflict, first writer wins)
CreateBookingInsertFirstWins(p) ==
    /\ proc[p].pc = "cb_insert"
    /\ LET taken == \E i \in 1..Len(bookings) :
                        bookings[i].property_id = proc[p].loc.booking_dict.property_id
       IN IF taken
          THEN /\ bookings' = bookings
               /\ proc' = [proc EXCEPT ![p] = Done(p, "create_booking", proc[p].user,
                               proc[p].args, HTTPException(409, "Property already booked"))]
          ELSE /\ bookings' = Append(bookings, proc[p].loc.booking_dict)
               /\ proc' = [proc EXCEPT ![p] = Done(p, "create_booking", proc[p].user,
                               proc[p].args,
                               Ok("", <<[success |-> TRUE,
                                         booking_id |-> proc[p].loc.booking_dict.id,
                                         total_price |-> proc[p].loc.total_price]>>))]
    /\ UNCHANGED <<users, properties, nextId, started>>

\* insert_one(booking_dict) and the return
CreateBookingInsert(p) ==
    /\ proc[p].pc = "cb_insert"
    /\ bookings' = Append(bookings, proc[p].loc.booking_dict)
    /\ proc' = [proc EXCEPT ![p] = Done(p, "create_booking", proc[p].user, proc[p].args,
                    Ok("", <<[success |-> TRUE, booking_id |-> proc[p].loc.booking_dict.id,
                              total_price |-> proc[p].loc.total_price]>>))]
    /\ UNCHANGED <<users, properties, nextId, started>>

----------------------------------------------------------------------------
(* get_user_bookings                                                       *)

IsAdmin(user) == user.email = AdminEmail

\* the bookings the handler reads: all of them for the admin, the caller's
\* own for everybody else
FindBookingsFor(coll, user) ==
    LET Own(b) == b.user_id = user.id
    IN IF IsAdmin(user)
       THEN ToList(coll, AdminListLimit)
       ELSE ToList(SelectSeq(coll, Own), UserListLimit)

\* {**booking, "property": property_doc}
WithProperty(b, property_doc) ==
    [id |-> b.id, user_id |-> b.user_id, property_id |-> b.property_id,
     check_in |-> b.check_in, check_out |-> b.check_out, guests |-> b.guests,
     total_price |-> b.total_price, status |-> b.status, property |-> property_doc]

GetUserBookingsFind(p, u) ==
    /\ proc[p].pc = "idle"
    /\ u \in 1..Len(users)
    /\ LET current_user == users[u]
           found == FindBookingsFor(bookings, current_user)
       IN proc' = [proc EXCEPT ![p] =
              IF Len(found) = 0
              THEN Done(p, "get_user_bookings", current_user, NoArgs, Ok("", <<>>))
              ELSE At("gb_join", "get_user_bookings", current_user, NoArgs,
                      [bookings |-> found, result |-> <<>>])]
    /\ UNCHANGED <<users, properties, bookings, nextId, started>>

\* (variant of GetUserBookingsJoin: a missing property fails the request, as in
\* get_property)
GetUserBookingsJoinStrict(p) ==
    /\ proc[p].pc = "gb_join"
    /\ LET loc == proc[p].loc
           booking == loc.bookings[Len(loc.result) + 1]
           property_doc == FindOneById(properties, booking.property_id)
           result == Append(loc.result, WithProperty(booking, property_doc))
       IN proc' = [proc EXCEPT ![p] =
              IF ~IsSet(property_doc)
              THEN Done(p, "get_user_bookings", proc[p].user, NoArgs,
                        HTTPException(404, "Property not found"))
              ELSE IF Len(result) = Len(loc.bookings)
              THEN Done(p, "get_user_bookings", proc[p].user, NoArgs, Ok("", result))
              ELSE At("gb_join", "get_user_bookings", proc[p].user, NoArgs,
                      [bookings |-> loc.bookings, result |-> result])]
    /\ UNCHANGED <<users, properties, bookings, nextId, started>>

\* one turn of the loop: find_one of the booking's property, append to result
GetUserBookingsJoin(p) ==
    /\ proc[p].pc = "gb_join"
    /\ LET loc == proc[p].loc
           booking == loc.bookings[Len(loc.result) + 1]
           property_doc == FindOneById(properties, booking.property_id)
           result == Append(loc.result, WithProperty(booking, property_doc))
       IN proc' = [proc EXCEPT ![p] =
              IF Len(result) = Len(loc.bookings)
              THEN Done(p, "get_user_bookings", proc[p].user, NoArgs, Ok("", result))
              ELSE At("gb_join", "get_user_bookings", proc[p].user, NoArgs,
                      [bookings |-> loc.bookings, result |-> result])]
    /\ UNCHANGED <<users, properties, bookings, nextId, started>>

----------------------------------------------------------------------------
(* delete_booking                                                          *)

\* booking["user_id"] != current_user.id and current_user.email != admin
\* (variant: the admin test the wrong way round)
NotAuthorizedAdminOnly(booking, user) == booking.user_id /= user.id /\ IsAdmin(user)

NotAuthorized(booking, user) == booking.user_id /= user.id /\ ~IsAdmin(user)

DeleteBookingFind(p, u, booking_id) ==
    /\ proc[p].pc = "idle"
    /\ u \in 1..Len(users)
    /\ LET current_user == users[u]
           args == [booking_id |-> booking_id]
           booking == FindOneById(bookings, booking_id)
       IN IF ~IsSet(booking)
          THEN /\ proc' = [proc EXCEPT ![p] = Done(p, "delete_booking", current_user, args,
                               HTTPException(404, "Booking not found"))]
               /\ UNCHANGED started
          ELSE IF NotAuthorized(Get(booking), current_user)
          THEN /\ proc' = [proc EXCEPT ![p] = Done(p, "delete_booking", current_user, args,
                               HTTPException(403, "Not authorized to delete this booking"))]
               /\ UNCHANGED started
          ELSE /\ proc' = [proc EXCEPT ![p] =
                       At("db_delete", "delete_booking", current_user, args, NoLoc)]
               /\ Count("delete_booking")
    /\ UNCHANGED <<users, properties, bookings, nextId>>

DeleteBookingDelete(p) ==
    /\ proc[p].pc = "db_delete"
    /\ LET booking_id == proc[p].args.booking_id
       IN /\ bookings' = DeleteOneById(bookings, booking_id)
          /\ proc' = [proc EXCEPT ![p] = Done(p, "delete_booking", proc[p].user, proc[p].args,
                          IF DeletedCount(bookings, booking_id) = 0
                          THEN HTTPException(404, "Booking not found")
                          ELSE Ok("Booking deleted successfully", <<>>))]
    /\ UNCHANGED <<users, properties, nextId, started>>

----------------------------------------------------------------------------
(* initialize_sample_data and refresh_sample_data                          *)

\* count_documents({}) and the early return
InitCount(p) ==
    /\ proc[p].pc = "idle"
    /\ IF Len(properties) > 0
       THEN /\ proc' = [proc EXCEPT ![p] =
                    Done(p, "init_data", NoUser, NoArgs, Ok("Sample data already exists", <<>>))]
            /\ UNCHANGED started
       ELSE /\ proc' = [proc EXCEPT ![p] =
                    At("seed_insert", "init_data", NoUser, NoArgs, [k |-> 1])]
            /\ Count("seed")
    /\ UNCHANGED <<users, properties, bookings, nextId>>

\* the admin check and find({}) of the bookings
RefreshFindBookings(p, u) ==
    /\ proc[p].pc = "idle"
    /\ u \in 1..Len(users)
    /\ LET current_user == users[u]
           booked_property_ids == {bookings[i].property_id : i \in 1..Len(bookings)}
       IN IF ~IsAdmin(current_user)
          THEN /\ proc' = [proc EXCEPT ![p] = Done(p, "refresh_data", current_user, NoArgs,
                               HTTPException(403, "Only admin can refresh data"))]
               /\ UNCHANGED started
          ELSE /\ proc' = [proc EXCEPT ![p] =
                       At("rf_find_props", "refresh_data", current_user, NoArgs,
                          [booked_property_ids |-> booked_property_ids])]
               /\ Count("seed")
    /\ UNCHANGED <<users, properties, bookings, nextId>>

\* find({"id": {"$in": booked ids}}) of the properties
RefreshFindProperties(p) ==
    /\ proc[p].pc = "rf_find_props"
    /\ LET existing_property_ids ==
               {properties[i].id : i \in {j \in 1..Len(properties) :
                    properties[j].id \in proc[p].loc.booked_property_ids}}
       IN proc' = [proc EXCEPT ![p] = At("rf_delete", "refresh_data", proc[p].user, NoArgs,
                       [existing_property_ids |-> existing_property_ids])]
    /\ UNCHANGED <<users, properties, bookings, nextId, started>>

\* delete_many of the properties without bookings
RefreshDelete(p) ==
    /\ proc[p].pc = "rf_delete"
    /\ properties' = DeleteManyIdNin(properties, proc[p].loc.existing_property_ids)
    /\ proc' = [proc EXCEPT ![p] = At("seed_insert", "refresh_data", proc[p].user, NoArgs,
                    [k |-> 1])]
    /\ UNCHANGED <<users, bookings, nextId, started>>

\* one turn of `for prop_data in sample_properties`: insert_one
SeedInsert(p) ==
    /\ proc[p].pc = "seed_insert"
    /\ LET k == proc[p].loc.k
       IN /\ properties' = Append(properties, Property(NewId("p"), SampleProperties[k]))
          /\ proc' = [proc EXCEPT ![p] =
                 IF k = Len(SampleProperties)
                 THEN At("seed_find_admin", proc[p].op, proc[p].user, NoArgs, NoLoc)
                 ELSE At("seed_insert", proc[p].op, proc[p].user, NoArgs, [k |-> k + 1])]
    /\ Draw("p")
    /\ UNCHANGED <<users, bookings, started>>

SeedMessage(op) ==
    IF op = "init_data"
    THEN "Initialized 12 sample properties and admin user"
    ELSE "Successfully refreshed data with 12 properties and admin user"

\* find_one of the admin user (admin_user is built before it)
SeedFindAdmin(p) ==
    /\ proc[p].pc = "seed_find_admin"
    /\ LET admin_user == User(NewId("u"), AdminEmail)
           existing_admin == FindOneByEmail(users, AdminEmail)
       IN proc' = [proc EXCEPT ![p] =
              IF IsSet(existing_admin)
              THEN Done(p, proc[p].op, proc[p].user, NoArgs, Ok(SeedMessage(proc[p].op), <<>>))
              ELSE At("seed_insert_admin", proc[p].op, proc[p].user, NoArgs,
                      [admin_user |-> admin_user])]
    /\ Draw("u")
    /\ UNCHANGED <<users, properties, bookings, started>>

SeedInsertAdmin(p) ==
    /\ proc[p].pc = "seed_insert_admin"
    /\ users' = Append(users, proc[p].loc.admin_user)
    /\ proc' = [proc EXCEPT ![p] =
           Done(p, proc[p].op, proc[p].user, NoArgs, Ok(SeedMessage(proc[p].op), <<>>))]
    /\ UNCHANGED <<properties, bookings, nextId, started>>

----------------------------------------------------------------------------
(* the response has gone out: the slot is free for the next request        *)

Return(p) ==
    /\ proc[p].pc = "done"
    /\ proc' = [proc EXCEPT ![p] = Idle]
    /\ UNCHANGED <<users, properties, bookings, nextId, started>>

----------------------------------------------------------------------------
(* The requests the environment sends *)

Emails == {AdminEmail, "alice@example.com"}

PropertyInputs ==
    {[title |-> "Quiet Flat in Kiel", property_type |-> "apartment", city |-> "Kiel",
      price_per_night |-> 120, max_guests |-> 2]}

\* an id no document has
UnknownId == "no-such-id"

\* how many of the stored properties the requests aim at
MaxTargets == 1

TargetIds(coll) == {UnknownId} \cup {coll[i].id : i \in 1..Min(Len(coll), MaxTargets)}

\* <<check_in, check_out>>: three nights, five nights overlapping them, no
\* night, and check-out before check-in
DateRanges ==
    {<<Date(2025, 6, 1), Date(2025, 6, 4)>>, <<Date(2025, 5, 30), Date(2025, 6, 4)>>,
     <<Date(2025, 6, 1), Date(2025, 6, 1)>>, <<Date(2025, 6, 4), Date(2025, 6, 1)>>}

BookingInputs ==
    {[property_id |-> id, check_in |-> r[1], check_out |-> r[2], guests |-> 2] :
        id \in TargetIds(properties), r \in DateRanges}

NoCriteria ==
    [city |-> None, min_price |-> None, max_price |-> None, min_guests |-> None,
     property_type |-> None]

----------------------------------------------------------------------------
(* The specification: any interleaving of requests in NProcs slots *)

Init ==
    /\ users = <<>>
    /\ properties = <<>>
    /\ bookings = <<>>
    /\ nextId = [c \in {"u", "p", "b"} |-> 0]
    /\ started = [k \in Kinds |-> 0]
    /\ proc = [p \in Procs |-> Idle]

\* the request slots are interchangeable: a new request takes the lowest free one
Free(p) == \A q \in Procs : proc[q].pc = "idle" => p <= q

\* the booking engine under concurrent requests
Next ==
    \E p \in Procs :
        \/ \E email \in Emails :
              Free(p) /\ started["register"] < MaxRegister /\ RegisterFind(p, email)
        \/ RegisterInsert(p)
        \/ \E data \in PropertyInputs :
              Free(p) /\ started["create_property"] < MaxCreateProperty /\ CreateProperty(p, data)
        \/ \E u \in 1..Len(users), data \in BookingInputs :
              Free(p) /\ started["create_booking"] < MaxCreateBooking /\ CreateBookingFind(p, u, data)
        \/ CreateBookingInsert(p)
        \/ \E u \in 1..Len(users) : Free(p) /\ GetUserBookingsFind(p, u)
        \/ GetUserBookingsJoin(p)
        \/ \E u \in 1..Len(users), id \in TargetIds(bookings) :
              Free(p) /\ started["delete_booking"] < MaxDelete /\ DeleteBookingFind(p, u, id)
        \/ DeleteBookingDelete(p)
        \/ Return(p)

Spec == Init /\ [][Next]_vars

----------------------------------------------------------------------------
(* The specification of bookings racing with refresh-data: the admin signs *)
(* up, a property is listed, and bookings, listings and a refresh-data     *)
(* request interleave                                                      *)

NextRefresh ==
    \E p \in Procs :
        \/ Free(p) /\ started["register"] < RefreshRegister /\ RegisterFind(p, AdminEmail)
        \/ RegisterInsert(p)
        \/ \E data \in PropertyInputs :
              Free(p) /\ started["create_property"] < RefreshCreateProperty
                      /\ CreateProperty(p, data)
        \/ \E u \in 1..Len(users), data \in BookingInputs :
              Free(p) /\ started["create_booking"] < RefreshCreateBooking
                      /\ CreateBookingFind(p, u, data)
        \/ CreateBookingInsert(p)
        \/ \E u \in 1..Len(users) : Free(p) /\ GetUserBookingsFind(p, u)
        \/ GetUserBookingsJoin(p)
        \/ \E u \in 1..Len(users) :
              Free(p) /\ started["seed"] < RefreshSeed /\ RefreshFindBookings(p, u)
        \/ RefreshFindProperties(p)
        \/ RefreshDelete(p)
        \/ SeedInsert(p)
        \/ SeedFindAdmin(p)
        \/ Return(p)

SpecRefresh == Init /\ [][NextRefresh]_vars

----------------------------------------------------------------------------
(* The specification of the property search: one client lists the sample   *)
(* listings over and over through create_property and searches in between  *)

Queries ==
    {[city |-> c, min_price |-> lo, max_price |-> hi, min_guests |-> g, property_type |-> t] :
        c \in {None, Some(""), Some("BER"), Some("burg")},
        lo \in {None, Some(0), Some(150)},
        hi \in {None, Some(0), Some(200)},
        g \in {None, Some(0), Some(5)},
        t \in {None, Some("LOFT")}}

NextListing == SampleProperties[(Len(properties) % Len(SampleProperties)) + 1]

NextSearch ==
    \/ Len(properties) < SearchProperties /\ CreateProperty(1, NextListing)
    \/ \E q \in Queries : GetProperties(1, q)
    \/ Return(1)

SpecSearch == Init /\ [][NextSearch]_vars

----------------------------------------------------------------------------
(* The specification of one user's long booking list: a user signs up, a   *)
(* property is listed, and the user books it again and again and lists the *)
(* bookings in between                                                     *)

ThreeNights(id) ==
    [property_id |-> id, check_in |-> Date(2025, 6, 1), check_out |-> Date(2025, 6, 4),
     guests |-> 2]

NextList ==
    \/ started["register"] < ListRegister /\ RegisterFind(1, "alice@example.com")
    \/ RegisterInsert(1)
    \/ \E data \in PropertyInputs :
          started["create_property"] < ListCreateProperty /\ CreateProperty(1, data)
    \/ \E u \in 1..Len(users), id \in TargetIds(properties) \ {UnknownId} :
          Len(bookings) < ListBookings /\ CreateBookingFind(1, u, ThreeNights(id))
    \/ CreateBookingInsert(1)
    \/ \E u \in 1..Len(users) : GetUserBookingsFind(1, u)
    \/ GetUserBookingsJoin(1)
    \/ Return(1)

SpecList == Init /\ [][NextList]_vars

----------------------------------------------------------------------------
(* The specification of racing deletions: a user and the admin sign up, a   *)
(* property is listed and booked, and delete_booking requests interleave    *)

NextDelete ==
    \E p \in Procs :
        \/ \E email \in Emails :
              Free(p) /\ started["register"] < DeleteRegister /\ RegisterFind(p, email)
        \/ RegisterInsert(p)
        \/ \E data \in PropertyInputs :
              Free(p) /\ started["create_property"] < DeleteCreateProperty
                      /\ CreateProperty(p, data)
        \/ \E u \in 1..Len(users), id \in TargetIds(properties) \ {UnknownId} :
              Free(p) /\ started["create_booking"] < DeleteCreateBooking
                      /\ CreateBookingFind(p, u, ThreeNights(id))
        \/ CreateBookingInsert(p)
        \/ \E u \in 1..Len(users), id \in TargetIds(bookings) :
              Free(p) /\ started["delete_booking"] < DeleteRequests
                      /\ DeleteBookingFind(p, u, id)
        \/ DeleteBookingDelete(p)
        \/ Return(p)

SpecDelete == Init /\ [][NextDelete]_vars

----------------------------------------------------------------------------
(* The specification of racing seeds: init-data requests on the empty store *)

\* the insert loops of racing seeds are scheduled one after the other, the
\* lowest slot first: the order in which the loops' inserts reach the store is
\* left out, every other interleaving of the requests is kept
LoopTurn(p) == \A q \in Procs : q < p => proc[q].pc /= "seed_insert"

NextInit ==
    \E p \in Procs :
        \/ Free(p) /\ started["seed"] < InitRequests /\ InitCount(p)
        \/ LoopTurn(p) /\ SeedInsert(p)
        \/ SeedFindAdmin(p)
        \/ SeedInsertAdmin(p)
        \/ Return(p)

SpecInit == Init /\ [][NextInit]_vars

----------------------------------------------------------------------------
(* The specification of all the operations that write the store: accounts,  *)
(* listings, bookings, deletions, init-data and refresh-data interleave     *)

\* <<check_in, check_out>>: three nights, two nights over a leap day in the
\* past, no night, and check-out before check-in
Stays ==
    {<<Date(2025, 6, 1), Date(2025, 6, 4)>>, <<Date(2024, 2, 28), Date(2024, 3, 1)>>,
     <<Date(2025, 6, 1), Date(2025, 6, 1)>>, <<Date(2025, 6, 4), Date(2025, 6, 1)>>}

\* the guest counts asked for: the listing of PropertyInputs takes 2 guests
GuestCounts == {2, 3}

StayInputs ==
    {[property_id |-> id, check_in |-> r[1], check_out |-> r[2], guests |-> g] :
        id \in TargetIds(properties) \ {UnknownId}, r \in Stays, g \in GuestCounts}

NextAll ==
    \E p \in Procs :
        \/ \E email \in Emails :
              Free(p) /\ started["register"] < AllRegister /\ RegisterFind(p, email)
        \/ RegisterInsert(p)
        \/ \E data \in PropertyInputs :
              Free(p) /\ started["create_property"] < AllCreateProperty /\ CreateProperty(p, data)
        \/ \E u \in 1..Len(users), data \in StayInputs :
              Free(p) /\ started["create_booking"] < AllCreateBooking
                      /\ CreateBookingFind(p, u, data)
        \/ CreateBookingInsert(p)
        \/ \E u \in 1..Len(users), id \in TargetIds(bookings) :
              Free(p) /\ started["delete_booking"] < AllDelete /\ DeleteBookingFind(p, u, id)
        \/ DeleteBookingDelete(p)
        \/ Free(p) /\ started["seed"] < AllSeed /\ InitCount(p)
        \/ \E u \in 1..Len(users) :
              Free(p) /\ started["seed"] < AllSeed /\ RefreshFindBookings(p, u)
        \/ RefreshFindProperties(p)
        \/ RefreshDelete(p)
        \/ LoopTurn(p) /\ SeedInsert(p)
        \/ SeedFindAdmin(p)
        \/ SeedInsertAdmin(p)
        \/ Return(p)

SpecAll == Init /\ [][NextAll]_vars

----------------------------------------------------------------------------
(* The specification of the accounts: register, init-data and refresh-data  *)
(* requests interleave                                                      *)

NextAccounts ==
    \E p \in Procs :
        \/ \E email \in Emails :
              Free(p) /\ started["register"] < AccountsRegister /\ RegisterFind(p, email)
        \/ RegisterInsert(p)
        \/ Free(p) /\ started["seed"] < AccountsSeed /\ InitCount(p)
        \/ \E u \in 1..Len(users) :
              Free(p) /\ started["seed"] < AccountsSeed /\ RefreshFindBookings(p, u)
        \/ RefreshFindProperties(p)
        \/ RefreshDelete(p)
        \/ LoopTurn(p) /\ SeedInsert(p)
        \/ SeedFindAdmin(p)
        \/ SeedInsertAdmin(p)
        \/ Return(p)

SpecAccounts == Init /\ [][NextAccounts]_vars

----------------------------------------------------------------------------
(* Vocabulary of the properties checked below *)

\* id resolves to a document of coll
Resolves(coll, id) == \E i \in 1..Len(coll) : coll[i].id = id

\* the documents of coll, as a set
Docs(coll) == {coll[i] : i \in 1..Len(coll)}

\* this step is the first stretch of slot p's handler of an op request
StartsOp(p, op) == proc[p].pc = "idle" /\ proc'[p].pc /= "idle" /\ proc'[p].op = op

\* this step lets slot p's handler run on from position pc
StepsFrom(p, pc) == proc[p].pc = pc /\ proc'[p] /= proc[p]

\* this step ends slot p's request with an HTTPException
Rejected(p, status, detail) ==
    /\ proc'[p].pc = "done"
    /\ proc'[p].resp.status = status
    /\ proc'[p].resp.detail = detail

StoreUnchanged == UNCHANGED <<users, properties, bookings>>

\* the days of the calendar the requests' dates lie in
CalendarDays ==
    {Date(2025, 5, d) : d \in 1..31} \cup {Date(2025, 6, d) : d \in 1..30}

\* the nights of a stay: the days from check-in up to, not including, check-out
Nights(check_in, check_out) ==
    Cardinality({d \in CalendarDays :
                    DateLeq(check_in, d) /\ DateLeq(d, check_out) /\ d /= check_out})

\* the ISO-8601 text of the dates the requests use
IsoText(dt) ==
    CASE dt = Date(2025, 5, 30) -> "2025-05-30"
      [] dt = Date(2025, 6, 1) -> "2025-06-01"
      [] dt = Date(2025, 6, 4) -> "2025-06-04"
      [] dt = Date(2024, 2, 28) -> "2024-02-28"
      [] dt = Date(2024, 3, 1) -> "2024-03-01"

----------------------------------------------------------------------------
(* create_booking: error outcomes *)

\* C1, as stated: every create_booking request whose check-out is on or before
\* its check-in fails with 400 "Invalid date range" and adds no booking.
C1_Original ==
    [][\A p \in Procs :
          (StartsOp(p, "create_booking")
             /\ DateLeq(proc'[p].args.check_out, proc'[p].args.check_in))
          => (Rejected(p, 400, "Invalid date range") /\ bookings' = bookings)]_vars

\* C1, amended: a create_booking request whose check-out is on or before its
\* check-in adds no booking and fails: with 400 "Invalid date range" when its
\* property id resolves, with 404 "Property not found" when it does not.
C1_InvalidRange ==
    [][\A p \in Procs :
          (StartsOp(p, "create_booking")
             /\ DateLeq(proc'[p].args.check_out, proc'[p].args.check_in))
          => /\ bookings' = bookings
             /\ IF Resolves(properties, proc'[p].args.property_id)
                THEN Rejected(p, 400, "Invalid date range")
                ELSE Rejected(p, 404, "Property not found")]_vars

\* a request for an existing property with check-out before check-in was
\* turned down with 400
C1_Witness ==
    \E p \in Procs :
        /\ proc[p].pc = "done" /\ proc[p].op = "create_booking"
        /\ proc[p].resp.status = 400
        /\ proc[p].args.check_in = Date(2025, 6, 4)
        /\ proc[p].args.check_out = Date(2025, 6, 1)
        /\ Resolves(properties, proc[p].args.property_id)

\* C10: a create_booking request whose property id resolves to no stored
\* property fails with 404 "Property not found" and adds no booking.
C10_PropertyNotFound ==
    [][\A p \in Procs :
          (StartsOp(p, "create_booking")
             /\ ~Resolves(properties, proc'[p].args.property_id))
          => (Rejected(p, 404, "Property not found") /\ bookings' = bookings)]_vars

\* a request with valid dates for an unknown property was turned down with 404
\* while the store holds properties
C10_Witness ==
    \E p \in Procs :
        /\ proc[p].pc = "done" /\ proc[p].op = "create_booking"
        /\ proc[p].resp.status = 404
        /\ proc[p].args.property_id = UnknownId
        /\ proc[p].args.check_in = Date(2025, 6, 1)
        /\ proc[p].args.check_out = Date(2025, 6, 4)
        /\ Len(properties) > 0

----------------------------------------------------------------------------
(* create_booking: price and acceptance *)

\* C2: a successful create_booking returns and stores the total price
\* nights x nightly price of the property as read in that request, and a stored
\* booking's total price never changes while the booking exists.
C2_TotalPrice ==
    [][/\ \A p \in Procs :
             (StartsOp(p, "create_booking") /\ proc'[p].pc = "cb_insert")
             => /\ proc'[p].loc.property_doc \in Docs(properties)
                /\ proc'[p].loc.property_doc.id = proc'[p].args.property_id
       /\ \A p \in Procs :
             StepsFrom(p, "cb_insert")
             => LET total == Nights(proc[p].args.check_in, proc[p].args.check_out)
                                * proc[p].loc.property_doc.price_per_night
                IN /\ proc'[p].pc = "done"
                   /\ proc'[p].resp.status = 200
                   /\ proc'[p].resp.body[1].total_price = total
                   /\ Len(bookings') = Len(bookings) + 1
                   /\ bookings'[Len(bookings')].id = proc'[p].resp.body[1].booking_id
                   /\ bookings'[Len(bookings')].total_price = total
       /\ \A i \in 1..Len(bookings), j \in 1..Len(bookings') :
             bookings[i].id = bookings'[j].id
             => bookings'[j].total_price = bookings[i].total_price]_vars

\* three nights at 120 are stored as 360, and stay 360 after the property was
\* deleted
C2_Witness ==
    \E i \in 1..Len(bookings) :
        /\ bookings[i].check_in = "2025-06-01"
        /\ bookings[i].check_out = "2025-06-04"
        /\ bookings[i].total_price = 360
        /\ ~Resolves(properties, bookings[i].property_id)

\* C8: create_booking never looks at the stored bookings: a request whose
\* property resolves and whose check-out is after its check-in is accepted and
\* its booking is stored, whatever bookings the store holds and whatever another
\* request does in between.
C8_AcceptedWhateverIsBooked ==
    [][\A p \in Procs :
          /\ (StartsOp(p, "create_booking")
                /\ Resolves(properties, proc'[p].args.property_id)
                /\ ~DateLeq(proc'[p].args.check_out, proc'[p].args.check_in))
             => proc'[p].pc = "cb_insert"
          /\ StepsFrom(p, "cb_insert")
             => /\ proc'[p].pc = "done"
                /\ proc'[p].resp.status = 200
                /\ Len(bookings') = Len(bookings) + 1
                /\ SubSeq(bookings', 1, Len(bookings)) = bookings
                /\ LET b == bookings'[Len(bookings')]
                   IN /\ b.property_id = proc[p].args.property_id
                      /\ b.check_in = IsoText(proc[p].args.check_in)
                      /\ b.check_out = IsoText(proc[p].args.check_out)
                      /\ b.user_id = proc[p].user.id]_vars

\* two bookings of the same property for overlapping nights are both stored
C8_Witness ==
    \E i, j \in 1..Len(bookings) :
        /\ bookings[i].property_id = bookings[j].property_id
        /\ bookings[i].check_in = "2025-05-30" /\ bookings[i].check_out = "2025-06-04"
        /\ bookings[j].check_in = "2025-06-01" /\ bookings[j].check_out = "2025-06-04"
        /\ bookings[i].status = "confirmed" /\ bookings[j].status = "confirmed"

----------------------------------------------------------------------------
(* delete_booking: authorization *)

\* C4: delete_booking on a stored booking by a caller who is neither its owner
\* nor the admin fails with 403 and leaves the whole store as it was.
C4_ForbiddenLeavesStore ==
    [][\A p \in Procs :
          (StartsOp(p, "delete_booking")
             /\ Resolves(bookings, proc'[p].args.booking_id)
             /\ (\A b \in Docs(bookings) :
                    b.id = proc'[p].args.booking_id => b.user_id /= proc'[p].user.id)
             /\ proc'[p].user.email /= AdminEmail)
          => (Rejected(p, 403, "Not authorized to delete this booking") /\ StoreUnchanged)]_vars

\* a user other than the admin was refused the deletion of a booking of
\* another user, and the booking is still stored
C4_Witness ==
    \E p \in Procs :
        /\ proc[p].pc = "done" /\ proc[p].op = "delete_booking"
        /\ proc[p].resp.status = 403
        /\ proc[p].user.email /= AdminEmail
        /\ \E i \in 1..Len(bookings) :
              /\ bookings[i].id = proc[p].args.booking_id
              /\ bookings[i].user_id /= proc[p].user.id

----------------------------------------------------------------------------
(* get_user_bookings *)

\* C3, as stated: the list a user other than the admin gets holds exactly the
\* stored bookings of that user, and the admin's list holds every stored booking.
C3_ExactlyOwnBookings ==
    \A p \in Procs :
        (proc[p].pc = "done" /\ proc[p].op = "get_user_bookings")
        => LET listed == {proc[p].resp.body[i].id : i \in 1..Len(proc[p].resp.body)}
               own == {b.id : b \in {d \in Docs(bookings) : d.user_id = proc[p].user.id}}
               all == {b.id : b \in Docs(bookings)}
           IN /\ proc[p].resp.status = 200
              /\ listed = IF proc[p].user.email = AdminEmail THEN all ELSE own

\* C7: a listed booking whose property id resolves to no stored property is
\* returned with property null, every other listed booking with its property,
\* and the request succeeds with all the bookings it read.
C7_MissingPropertyIsNull ==
    [][\A p \in Procs :
          StepsFrom(p, "gb_join")
          => LET loc == proc[p].loc
                 k == Len(loc.result) + 1
                 b == loc.bookings[k]
                 out == IF proc'[p].pc = "done" THEN proc'[p].resp.body
                        ELSE proc'[p].loc.result
             IN /\ proc'[p].pc = IF k = Len(loc.bookings) THEN "done" ELSE "gb_join"
                /\ proc'[p].pc = "done" => proc'[p].resp.status = 200
                /\ Len(out) = k
                /\ SubSeq(out, 1, k - 1) = loc.result
                /\ out[k].id = b.id /\ out[k].property_id = b.property_id
                /\ out[k].total_price = b.total_price
                /\ IF Resolves(properties, b.property_id)
                   THEN /\ IsSet(out[k].property)
                        /\ Get(out[k].property) \in Docs(properties)
                        /\ Get(out[k].property).id = b.property_id
                   ELSE out[k].property = None]_vars

\* a list came back with one booking whose property is null and one booking
\* with its property
C7_Witness ==
    \E p \in Procs :
        /\ proc[p].pc = "done" /\ proc[p].op = "get_user_bookings"
        /\ proc[p].resp.status = 200
        /\ \E i, j \in 1..Len(proc[p].resp.body) :
              /\ proc[p].resp.body[i].property = None
              /\ ~Resolves(properties, proc[p].resp.body[i].property_id)
              /\ IsSet(proc[p].resp.body[j].property)

----------------------------------------------------------------------------
(* get_properties *)

\* the stored properties a search option set to a value lets through
SatisfiesSet(q, d) ==
    /\ IsSet(q.city) => ContainsIgnoreCase(d.city, Get(q.city))
    /\ IsSet(q.min_price) => d.price_per_night >= Get(q.min_price)
    /\ IsSet(q.max_price) => d.price_per_night <= Get(q.max_price)
    /\ IsSet(q.min_guests) => d.max_guests >= Get(q.min_guests)
    /\ IsSet(q.property_type) => ContainsIgnoreCase(d.property_type, Get(q.property_type))

\* C5: get_properties without criteria returns only available properties, at
\* most 100 of them, and all the available ones when there are at most 100.
C5_NoCriteria ==
    [][\A p \in Procs :
          (StartsOp(p, "get_properties") /\ proc'[p].args = NoCriteria)
          => LET body == proc'[p].resp.body
                 avail == {d \in Docs(properties) : d.available}
             IN /\ proc'[p].resp.status = 200
                /\ \A i \in 1..Len(body) : body[i] \in avail
                /\ \A i, j \in 1..Len(body) : body[i].id = body[j].id => i = j
                /\ Len(body) <= 100
                /\ Cardinality(avail) <= 100 => {body[i] : i \in 1..Len(body)} = avail]_vars

\* a search without criteria over 101 stored properties returned 100
C5_Witness ==
    \E p \in Procs :
        /\ proc[p].pc = "done" /\ proc[p].op = "get_properties"
        /\ proc[p].args = NoCriteria
        /\ Len(properties) = 101
        /\ Len(proc[p].resp.body) = 100

\* C6, as stated: with minPrice and maxPrice both set, every returned property
\* has minPrice <= price <= maxPrice, and no property priced at minPrice or at
\* maxPrice (within the range) is left out of a search with just these two.
C6_PriceRange ==
    [][\A p \in Procs :
          (StartsOp(p, "get_properties")
             /\ IsSet(proc'[p].args.min_price) /\ IsSet(proc'[p].args.max_price))
          => LET q == proc'[p].args
                 body == proc'[p].resp.body
                 lo == Get(q.min_price)
                 hi == Get(q.max_price)
             IN /\ \A i \in 1..Len(body) :
                      lo <= body[i].price_per_night /\ body[i].price_per_night <= hi
                /\ (q.city = None /\ q.min_guests = None /\ q.property_type = None
                      /\ lo <= hi /\ Len(properties) <= 100)
                   => \A d \in Docs(properties) :
                         d.price_per_night \in {lo, hi} => \E j \in 1..Len(body) : body[j] = d]_vars

\* C9, as stated: for every combination of set and unset options, every
\* returned property is available and satisfies every option that is set (no
\* set option is ignored), and an unset option keeps no property out: up to
\* the cap of 100, every such property is returned.
C9_EverySetOptionApplied ==
    [][\A p \in Procs :
          StartsOp(p, "get_properties")
          => LET q == proc'[p].args
                 body == proc'[p].resp.body
                 wanted == {d \in Docs(properties) : d.available /\ SatisfiesSet(q, d)}
             IN /\ \A i \in 1..Len(body) : body[i].available /\ SatisfiesSet(q, body[i])
                /\ Cardinality(wanted) <= 100
                   => \A d \in wanted : \E i \in 1..Len(body) : body[i] = d]_vars

----------------------------------------------------------------------------
(* delete_booking: outcomes *)

\* C11: delete_booking with a booking id that resolves to no stored booking
\* fails with 404 "Booking not found" for every caller, the admin too, and
\* leaves the whole store as it was.
C11_UnknownBookingNotFound ==
    [][\A p \in Procs :
          (StartsOp(p, "delete_booking")
             /\ ~Resolves(bookings, proc'[p].args.booking_id))
          => (Rejected(p, 404, "Booking not found") /\ StoreUnchanged)]_vars

\* the admin asked for the deletion of an id no booking has, while a booking
\* is stored, and got 404
C11_Witness ==
    \E p \in Procs :
        /\ proc[p].pc = "done" /\ proc[p].op = "delete_booking"
        /\ proc[p].user.email = AdminEmail
        /\ proc[p].args.booking_id = UnknownId
        /\ proc[p].resp.status = 404
        /\ Len(bookings) > 0

\* the caller may delete the stored booking with this id
MayDelete(user, booking_id) ==
    \E b \in Docs(bookings) :
        b.id = booking_id /\ (b.user_id = user.id \/ user.email = AdminEmail)

\* coll without the documents whose id is id
Without(coll, id) == LET Other(d) == d.id /= id IN SelectSeq(coll, Other)

\* C12: delete_booking on a stored booking by its owner or by the admin passes
\* the checks, and its delete_one on the still stored booking succeeds and is a
\* hard removal: no booking with that id and none with status "cancelled" is
\* left, and every other booking, every property and every user is unchanged.
C12_HardRemoval ==
    [][\A p \in Procs :
          /\ (StartsOp(p, "delete_booking")
                /\ MayDelete(proc'[p].user, proc'[p].args.booking_id))
             => (proc'[p].pc = "db_delete" /\ StoreUnchanged)
          /\ (StepsFrom(p, "db_delete") /\ Resolves(bookings, proc[p].args.booking_id))
             => /\ proc'[p].pc = "done"
                /\ proc'[p].resp.status = 200
                /\ proc'[p].resp.detail = "Booking deleted successfully"
                /\ ~Resolves(bookings', proc[p].args.booking_id)
                /\ bookings' = Without(bookings, proc[p].args.booking_id)
                /\ \A b \in Docs(bookings') : b.status /= "cancelled"
                /\ UNCHANGED <<users, properties>>]_vars

\* the admin deleted a booking of another user: the request succeeded, the
\* booking is gone and another booking is still stored
C12_Witness ==
    \E p \in Procs :
        /\ proc[p].pc = "done" /\ proc[p].op = "delete_booking"
        /\ proc[p].user.email = AdminEmail
        /\ proc[p].resp.status = 200
        /\ proc[p].args.booking_id /= UnknownId
        /\ ~Resolves(bookings, proc[p].args.booking_id)
        /\ Len(bookings) > 0
        /\ \A b \in Docs(bookings) : b.user_id /= proc[p].user.id

----------------------------------------------------------------------------
(* the admin identity *)

\* C19, as stated: a user record created through register (every user of this
\* specification is one) never gets a booking of another user from
\* get_user_bookings and never succeeds in deleting a booking of another user.
C19_RegisteredNeverElevated ==
    [][\A p \in Procs :
          /\ (StepsFrom(p, "gb_join") /\ proc'[p].pc = "done")
             => \A i \in 1..Len(proc'[p].resp.body) :
                   proc'[p].resp.body[i].user_id = proc'[p].user.id
          /\ (StepsFrom(p, "db_delete") /\ proc'[p].resp.status = 200)
             => \A b \in Docs(bookings) :
                   b.id = proc[p].args.booking_id => b.user_id = proc[p].user.id]_vars

----------------------------------------------------------------------------
(* delete_booking: racing requests *)

\* C18: of the delete_booking requests on one stored booking that passed the
\* authorization check, the one whose delete_one runs first returns success
\* and removes the booking, every later one returns 404 "Booking not found"
\* and removes nothing; no two requests report the deletion of the same booking.
C18_OneDeletionSucceeds ==
    /\ [](\A p, q \in Procs :
            (p /= q
               /\ proc[p].pc = "done" /\ proc[p].op = "delete_booking"
               /\ proc[q].pc = "done" /\ proc[q].op = "delete_booking"
               /\ proc[p].args.booking_id = proc[q].args.booking_id)
            => ~(proc[p].resp.status = 200 /\ proc[q].resp.status = 200))
    /\ [][\A p \in Procs :
            StepsFrom(p, "db_delete")
            => /\ proc'[p].pc = "done"
               /\ IF Resolves(bookings, proc[p].args.booking_id)
                  THEN /\ proc'[p].resp.status = 200
                       /\ ~Resolves(bookings', proc[p].args.booking_id)
                  ELSE /\ Rejected(p, 404, "Booking not found")
                       /\ bookings' = bookings]_vars

\* the owner and the admin both passed the checks for the same booking; one
\* request has returned success and the booking is gone, the other one has
\* been answered 404
C18_Witness ==
    \E p, q \in Procs :
        /\ proc[p].pc = "done" /\ proc[p].op = "delete_booking"
        /\ proc[q].pc = "done" /\ proc[q].op = "delete_booking"
        /\ proc[p].args.booking_id = proc[q].args.booking_id
        /\ proc[p].args.booking_id /= UnknownId
        /\ proc[p].user.id /= proc[q].user.id
        /\ started["delete_booking"] = 2
        /\ proc[p].resp.status = 200
        /\ proc[q].resp.status = 404

----------------------------------------------------------------------------
(* init-data *)

\* no request is under way
Quiet == \A p \in Procs : proc[p].pc \in {"idle", "done"}

\* the stored properties made from the k-th sample
Seeded(k) ==
    {i \in 1..Len(properties) : properties[i] = Property(properties[i].id, SampleProperties[k])}

\* C17, as stated: once the init-data requests sent to the empty store have
\* all been answered, the store holds exactly the 12 sample properties, each
\* one once.
C17_TwelveSamplesOnce ==
    (Quiet /\ Len(properties) > 0)
    => /\ Len(properties) = Len(SampleProperties)
       /\ \A k \in 1..Len(SampleProperties) : Cardinality(Seeded(k)) = 1

----------------------------------------------------------------------------
(* refresh-data *)

\* C16, as stated: the delete_many of refresh_sample_data never removes a
\* property that a stored booking refers to, so a stored booking whose
\* property resolves before the step still resolves after it.
C16_BookedPropertiesKept ==
    [][\A p \in Procs :
          StepsFrom(p, "rf_delete")
          => \A b \in Docs(bookings) :
                Resolves(properties, b.property_id) => Resolves(properties', b.property_id)]_vars

----------------------------------------------------------------------------
(* create_booking: the successful request *)

\* C13: a create_booking request whose property id resolves and whose
\* check-out is after its check-in passes the checks, for every guest count
\* and every check-in date, without touching the store; its insert then
\* succeeds and appends exactly one booking, with a new id, status
\* "confirmed", the caller as owner and the requested property id, dates and
\* guest count, and changes no other booking, no property and no user.
C13_SuccessAddsOneBooking ==
    [][\A p \in Procs :
          /\ (StartsOp(p, "create_booking")
                /\ Resolves(properties, proc'[p].args.property_id)
                /\ ~DateLeq(proc'[p].args.check_out, proc'[p].args.check_in))
             => (proc'[p].pc = "cb_insert" /\ StoreUnchanged)
          /\ StepsFrom(p, "cb_insert")
             => /\ proc'[p].pc = "done"
                /\ proc'[p].resp.status = 200
                /\ Len(bookings') = Len(bookings) + 1
                /\ SubSeq(bookings', 1, Len(bookings)) = bookings
                /\ LET b == bookings'[Len(bookings')]
                   IN /\ ~Resolves(bookings, b.id)
                      /\ b.id = proc'[p].resp.body[1].booking_id
                      /\ b.status = "confirmed"
                      /\ b.user_id = proc[p].user.id
                      /\ b.property_id = proc[p].args.property_id
                      /\ b.check_in = IsoText(proc[p].args.check_in)
                      /\ b.check_out = IsoText(proc[p].args.check_out)
                      /\ b.guests = proc[p].args.guests
                /\ UNCHANGED <<users, properties>>]_vars

\* a booking for one guest more than its stored property takes, with a
\* check-in date in the past, has been accepted and stored
C13_Witness ==
    \E p \in Procs :
        /\ proc[p].pc = "done" /\ proc[p].op = "create_booking"
        /\ proc[p].resp.status = 200
        /\ \E b \in Docs(bookings), d \in Docs(properties) :
              /\ b.id = proc[p].resp.body[1].booking_id
              /\ d.id = b.property_id
              /\ b.guests = d.max_guests + 1
              /\ b.check_in = "2024-02-28" /\ b.check_out = "2024-03-01"
              /\ b.status = "confirmed"
              /\ b.user_id = proc[p].user.id

----------------------------------------------------------------------------
(* the bookings' dates *)

\* the dates the requests use
RequestDates ==
    {Date(2025, 5, 30), Date(2025, 6, 1), Date(2025, 6, 4), Date(2024, 2, 28), Date(2024, 3, 1)}

\* the date an ISO-8601 text stands for
FromIso(text) == CHOOSE dt \in RequestDates : IsoText(dt) = text

\* C14: in every state that register, create_property, create_booking,
\* delete_booking, init-data and refresh-data requests lead to, every stored
\* booking has its check-out date strictly after its check-in date.
C14_CheckOutAfterCheckIn ==
    \A b \in Docs(bookings) :
        /\ \E dt \in RequestDates : IsoText(dt) = b.check_in
        /\ \E dt \in RequestDates : IsoText(dt) = b.check_out
        /\ FromIso(b.check_in) /= FromIso(b.check_out)
        /\ DateLeq(FromIso(b.check_in), FromIso(b.check_out))

\* a booking is stored, the sample properties have been seeded, and a
\* delete_booking request has passed its checks
C14_Witness ==
    /\ Len(bookings) > 0
    /\ Len(properties) >= Len(SampleProperties)
    /\ started["seed"] > 0
    /\ \E p \in Procs : proc[p].pc = "db_delete"

----------------------------------------------------------------------------
(* the users' emails *)

\* C15, as stated: no two stored user records have the same email.
C15_EmailsUnique ==
    \A i, j \in 1..Len(users) : users[i].email = users[j].email => i = j

====
